---- MODULE Spec2Model ----
(***************************************************************************)
(* A model of markdown-to-confluence: the ConfluenceRenderer hooks and     *)
(* resolve_link (convert.py), convert_info_macros (convert.py), parse      *)
(* (convert.py), the page layout's render (pagelayouts.py) and the         *)
(* repository scan (docs.py).                                              *)
(*                                                                         *)
(* Strings are sequences of one-character strings, so that prefix tests,   *)
(* stripping, slicing and path splitting are computed as the code computes *)
(* them.  Paths follow posixpath (separator "/").                          *)
(***************************************************************************)
EXTENDS Integers, Sequences, FiniteSets, TLC

VARIABLES
    \* ConfluenceRenderer (convert.py 107-273)
    pc,             \* "new" | "failed" | "rendering" | "done"
    page_layout,    \* the page_layout argument given to __init__
    has_toc,        \* self.has_toc
    attachments,    \* self.attachments
    out,            \* the fragments the hooks returned, in document order
    resolved,       \* the links resolve_link was called with, in call order
    page,           \* what layout() returned
    \* resolve_link on its own
    link, link_type,
    \* convert_info_macros
    html, stage, pass1, pass2,
    \* parse
    doc, pos, in_yaml, raw_yaml, markdown, parsed,
    \* MarkdownPages.__scan_repository__
    walk, di, fi, scan_pc, directory, md_docs_tree, errors

vars == <<pc, page_layout, has_toc, attachments, out, resolved, page,
          link, link_type, html, stage, pass1, pass2,
          doc, pos, in_yaml, raw_yaml, markdown, parsed,
          walk, di, fi, scan_pc, directory, md_docs_tree, errors>>

rendererVars == <<pc, page_layout, has_toc, attachments, out, resolved, page>>
linkVars == <<link, link_type>>
macroVars == <<html, stage, pass1, pass2>>
parseVars == <<doc, pos, in_yaml, raw_yaml, markdown, parsed>>
scanVars == <<walk, di, fi, scan_pc, directory, md_docs_tree, errors>>

----------------------------------------------------------------------------
(* Strings *)

\* The concatenation of a sequence of strings.
RECURSIVE Join(_)
Join(parts) ==
    IF parts = <<>> THEN <<>> ELSE Head(parts) \o Join(Tail(parts))

\* s[i:] of Python, i counted from 0.
From(s, i) == IF i >= Len(s) THEN <<>> ELSE SubSeq(s, i + 1, Len(s))

\* s[:i] of Python, i counted from 0.
Upto(s, i) == IF i <= 0 THEN <<>> ELSE SubSeq(s, 1, IF i > Len(s) THEN Len(s) ELSE i)

\* str.startswith
StartsWith(s, p) == Len(s) >= Len(p) /\ SubSeq(s, 1, Len(p)) = p

\* str.lstrip(chars)
RECURSIVE LStrip(_, _)
LStrip(s, chars) ==
    IF s # <<>> /\ Head(s) \in chars THEN LStrip(Tail(s), chars) ELSE s

\* str.rstrip(chars)
RECURSIVE RStrip(_, _)
RStrip(s, chars) ==
    IF s # <<>> /\ s[Len(s)] \in chars
    THEN RStrip(SubSeq(s, 1, Len(s) - 1), chars) ELSE s

\* str.rfind(c) + 1: the 1-based place of the last c in s, 0 when there is none.
LastOf(s, c) ==
    LET at == {i \in 1..Len(s) : s[i] = c}
    IN IF at = {} THEN 0 ELSE CHOOSE i \in at : \A j \in at : j <= i

\* The 1-based place of the first character of s, from place `lo` on, that is
\* in chars; Len(s) + 1 when there is none.
FirstOf(s, chars, lo) ==
    LET at == {i \in lo..Len(s) : s[i] \in chars}
    IN IF at = {} THEN Len(s) + 1 ELSE CHOOSE i \in at : \A j \in at : i <= j

\* The strings used below.
IMAGES == <<"i", "m", "a", "g", "e", "s">>
SEP == <<"/">>
DOTDOT == <<".", ".">>
HASH == <<"#">>
MD == <<".", "m", "d">>
TXT == <<".", "t", "x", "t">>
PNG == <<".", "p", "n", "g">>
HTTP == <<"h", "t", "t", "p", ":">>
HOST == <<"h">>
NAME == <<"a">>
TWO == <<"2">>

Letters == {"a", "d", "e", "g", "h", "i", "m", "n", "p", "s", "t", "x"}
Digits == {"2"}

----------------------------------------------------------------------------
(* os.path and urllib.parse as the hooks use them *)

\* posixpath.basename: what follows the last "/".
basename(p) == From(p, LastOf(p, "/"))

\* posixpath.dirname: what precedes the last "/", its trailing "/"s removed
\* unless it consists of "/"s only.
dirname(p) ==
    LET head == Upto(p, LastOf(p, "/"))
    IN IF head # <<>> /\ (\E i \in 1..Len(head) : head[i] # "/")
       THEN RStrip(head, {"/"}) ELSE head

\* posixpath.splitext(p)[1]: from the last "." on, when that "." follows the
\* last "/" and some character of the file name before it is not a ".".
splitext_ext(p) ==
    LET sepIndex == LastOf(p, "/")
        dotIndex == LastOf(p, ".")
    IN IF dotIndex > sepIndex
          /\ \E k \in (sepIndex + 1)..(dotIndex - 1) : p[k] # "."
       THEN From(p, dotIndex - 1) ELSE <<>>

\* urlparse(url).netloc: a leading scheme (a letter, then letters, digits,
\* "+", "-", "." up to the first ":") is split off; when what is left starts
\* with "//", the netloc runs from there to the next "/", "?" or "#".
urlparse_netloc(url) ==
    LET colon == FirstOf(url, {":"}, 1)
        hasScheme == /\ colon <= Len(url)
                     /\ colon > 1
                     /\ url[1] \in Letters
                     /\ \A k \in 1..(colon - 1) :
                            url[k] \in Letters \cup Digits \cup {"+", "-", "."}
        rest == IF hasScheme THEN From(url, colon) ELSE url
    IN IF StartsWith(rest, <<"/", "/">>)
       THEN SubSeq(rest, 3, FirstOf(rest, {"/", "?", "#"}, 3) - 1)
       ELSE <<>>

\* convert.py 176, 205: is_external = bool(urlparse(src).netloc)
is_external(src) == urlparse_netloc(src) # <<>>

----------------------------------------------------------------------------
(* resolve_link, convert.py 250-273 *)

ASSETS == IMAGES

resolve_link(l) ==
    IF StartsWith(l, HASH) THEN "HEADING"
    ELSE IF dirname(l) = ASSETS THEN "ATTACHMENT"
    ELSE IF splitext_ext(l) = MD THEN "MD_PAGE_REFERENCE"
    ELSE "UNKNOWN"

----------------------------------------------------------------------------
(* ConfluenceRenderer, convert.py 107-248 *)

MaxHooks == 2

\* The page_layout arguments __init__ is given: None, a falsy object that is
\* no page, a truthy object that is no page, a page whose truth value is
\* false, and a LeftSidebarPage.
PageLayouts ==
    {[name |-> "None", truthy |-> FALSE, isPage |-> FALSE],
     [name |-> "empty str", truthy |-> FALSE, isPage |-> FALSE],
     [name |-> "str", truthy |-> TRUE, isPage |-> FALSE],
     [name |-> "empty page", truthy |-> FALSE, isPage |-> TRUE],
     [name |-> "LeftSidebarPage", truthy |-> TRUE, isPage |-> TRUE]}

NoLayout == [name |-> "unset", truthy |-> FALSE, isPage |-> FALSE]

\* The image and link targets of the documents rendered.
Srcs ==
    {Join(<<IMAGES, SEP, NAME, PNG>>),                  \* images/a.png
     Join(<<SEP, IMAGES, SEP, NAME, PNG>>),             \* /images/a.png
     Join(<<IMAGES, TWO, SEP, NAME, PNG>>),             \* images2/a.png
     Join(<<DOTDOT, SEP, IMAGES, SEP, NAME, PNG>>),     \* ../images/a.png
     Join(<<IMAGES, SEP, NAME, MD>>),                   \* images/a.md
     Join(<<NAME, SEP, NAME, MD>>),                     \* a/a.md
     Join(<<NAME, TXT>>),                               \* a.txt
     Join(<<HASH, NAME>>),                              \* #a
     Join(<<HTTP, SEP, IMAGES, SEP, NAME, PNG>>),       \* http:/images/a.png
     Join(<<HTTP, SEP, SEP, HOST, SEP, IMAGES, SEP, NAME, PNG>>),
                                                        \* http://h/images/a.png
     Join(<<SEP, SEP, HOST, SEP, NAME, MD>>),           \* //h/a.md
     Join(<<HTTP, SEP, SEP, HOST, SEP, NAME, MD>>)}     \* http://h/a.md

HeadingLevels == 1..6
Langs == {"", "python"}

\* What a step of the renderer leaves alone: the other procedures' state.
RendererFrame == UNCHANGED <<linkVars, macroVars, parseVars, scanVars>>

Fragment(hook, src, tag, arg, level) ==
    [hook |-> hook, src |-> src, tag |-> tag, arg |-> arg, level |-> level]

\* An __init__ that tests the truth value of its argument and not its type.
valid_page_layout_untyped(pl) == pl.truthy

\* convert.py 110: the argument __init__ accepts.
valid_page_layout(pl) == pl.truthy /\ pl.isPage

\* convert.py 108-123
Construct(pl) ==
    /\ pc = "new"
    /\ page_layout' = pl
    /\ IF ~valid_page_layout(pl)
       THEN /\ pc' = "failed"            \* raise InvalidArgumentException
            /\ UNCHANGED <<has_toc, attachments>>
       ELSE /\ pc' = "rendering"
            /\ has_toc' = FALSE
            /\ attachments' = <<>>
    /\ UNCHANGED <<out, resolved, page>>
    /\ RendererFrame

\* A header hook that asks for the table of contents at level 1 only.
header_has_toc_top_level(level) == level = 1

\* convert.py 144: what header assigns to self.has_toc.
header_has_toc(level) == TRUE

\* convert.py 138-145
header(level) ==
    /\ pc = "rendering" /\ Len(out) < MaxHooks
    /\ has_toc' = header_has_toc(level)
    /\ out' = Append(out, Fragment("header", <<>>, "h", <<>>, level))
    /\ UNCHANGED <<pc, page_layout, attachments, resolved, page>>
    /\ RendererFrame

\* convert.py 147-153
block_code(lang) ==
    /\ pc = "rendering" /\ Len(out) < MaxHooks
    /\ out' = Append(out, Fragment("block_code", <<>>, "code",
                                   IF lang = "" THEN "text" ELSE lang, 0))
    /\ UNCHANGED <<pc, page_layout, has_toc, attachments, resolved, page>>
    /\ RendererFrame

\* convert.py 155-157
linebreak ==
    /\ pc = "rendering" /\ Len(out) < MaxHooks
    /\ out' = Append(out, Fragment("linebreak", <<>>, "br", <<>>, 0))
    /\ UNCHANGED <<pc, page_layout, has_toc, attachments, resolved, page>>
    /\ RendererFrame

\* convert.py 159-161
hrule ==
    /\ pc = "rendering" /\ Len(out) < MaxHooks
    /\ out' = Append(out, Fragment("hrule", <<>>, "hr", <<>>, 0))
    /\ UNCHANGED <<pc, page_layout, has_toc, attachments, resolved, page>>
    /\ RendererFrame

\* convert.py 183-185: the entry image records for a src that is not external.
image_attachment(src) ==
    LET attachment == LStrip(src, {"/"})
    IN IF StartsWith(attachment, IMAGES)
       THEN From(attachment, Len(IMAGES)) ELSE attachment

\* An image hook that records external images too.
image_attachments_always(atts, src) == Append(atts, image_attachment(src))

\* convert.py 176-187: self.attachments after image(src, ...).
image_attachments(atts, src) ==
    IF ~is_external(src) THEN Append(atts, image_attachment(src)) ELSE atts

\* convert.py 163-189
image(src) ==
    /\ pc = "rendering" /\ Len(out) < MaxHooks
    /\ attachments' = image_attachments(attachments, src)
    /\ out' = Append(out,
                IF is_external(src)
                THEN Fragment("image", src, "ri:url", src, 0)
                ELSE Fragment("image", src, "ri:attachment", basename(src), 0))
    /\ UNCHANGED <<pc, page_layout, has_toc, resolved, page>>
    /\ RendererFrame

\* A link hook that records the base name of an attachment, not its src.
link_attachments_basename(atts, src) ==
    IF is_external(src) THEN atts
    ELSE IF resolve_link(src) = "ATTACHMENT" THEN Append(atts, basename(src))
    ELSE atts

\* convert.py 205-213: self.attachments after link(src, ...).
link_attachments(atts, src) ==
    IF is_external(src) THEN atts
    ELSE IF resolve_link(src) = "ATTACHMENT" THEN Append(atts, src) ELSE atts

\* convert.py 205-210: the calls of resolve_link after link(src, ...).
link_resolved(calls, src) ==
    IF is_external(src) THEN calls ELSE Append(calls, src)

\* convert.py 191-248.  The title and the text of the link only fill the
\* returned markup; they are left out.
link_hook(src) ==
    /\ pc = "rendering" /\ Len(out) < MaxHooks
    /\ attachments' = link_attachments(attachments, src)
    /\ resolved' = link_resolved(resolved, src)
    /\ out' = Append(out,
                IF is_external(src) THEN Fragment("link", src, "a", src, 0)
                ELSE CASE resolve_link(src) = "ATTACHMENT" ->
                            Fragment("link", src, "ri:attachment", basename(src), 0)
                       [] resolve_link(src) = "MD_PAGE_REFERENCE" ->
                            Fragment("link", src, "ri:page", <<>>, 0)
                       [] resolve_link(src) = "HEADING" ->
                            Fragment("link", src, "ac:anchor", <<>>, 0)
                       [] OTHER -> Fragment("link", src, "a", src, 0))
    /\ UNCHANGED <<pc, page_layout, has_toc, page>>
    /\ RendererFrame

\* pagelayouts.py 73-85: the sidebar cell render_toc returns.
render_toc(toc_flag) == IF ~toc_flag THEN "empty cell" ELSE "toc macro"

\* pagelayouts.py 23-38: render(content, authors, has_toc)
render(content, toc_flag) == [toc |-> render_toc(toc_flag), content |-> content]

\* convert.py 135: the flag layout hands to the page layout's render.
layout_flag == has_toc

\* convert.py 125-135
layout ==
    /\ pc = "rendering"
    /\ page' = render(out, layout_flag)
    /\ pc' = "done"
    /\ UNCHANGED <<page_layout, has_toc, attachments, out, resolved>>
    /\ RendererFrame

NoPage == [toc |-> "none", content |-> <<>>]

RendererIdle ==
    /\ pc = "idle" /\ page_layout = NoLayout /\ has_toc = FALSE
    /\ attachments = <<>> /\ out = <<>> /\ resolved = <<>> /\ page = NoPage

LinkIdle == link = <<>> /\ link_type = "unset"
MacroIdle == html = <<>> /\ stage = "idle" /\ pass1 = <<>> /\ pass2 = <<>>
ParseIdle ==
    /\ doc = <<>> /\ pos = 0 /\ in_yaml = TRUE /\ raw_yaml = <<>>
    /\ markdown = <<>> /\ parsed = "idle"
ScanIdle ==
    /\ walk = <<>> /\ di = 0 /\ fi = 0 /\ scan_pc = "idle"
    /\ directory = {} /\ md_docs_tree = {} /\ errors = {}

\* One conversion: the renderer before its construction.
Init ==
    /\ pc = "new" /\ page_layout = NoLayout /\ has_toc = FALSE
    /\ attachments = <<>> /\ out = <<>> /\ resolved = <<>> /\ page = NoPage
    /\ LinkIdle /\ MacroIdle /\ ParseIdle /\ ScanIdle

Next ==
    \/ \E pl \in PageLayouts : Construct(pl)
    \/ \E level \in HeadingLevels : header(level)
    \/ \E lang \in Langs : block_code(lang)
    \/ linebreak
    \/ hrule
    \/ \E src \in Srcs : image(src)
    \/ \E src \in Srcs : link_hook(src)
    \/ layout

Spec == Init /\ [][Next]_vars

----------------------------------------------------------------------------
(* Properties of the renderer, checked under Spec *)

HttpHostImagesPng == Join(<<HTTP, SEP, SEP, HOST, SEP, IMAGES, SEP, NAME, PNG>>)
HostMd == Join(<<SEP, SEP, HOST, SEP, NAME, MD>>)

HeaderSeen == \E i \in 1..Len(out) : out[i].hook = "header"

ExternalOnly ==
    \A i \in 1..Len(out) :
        out[i].hook \in {"image", "link"} => is_external(out[i].src)

\* C2: an image or link hook on a src with a network authority leaves
\* attachments unchanged and does not call resolve_link, whatever the path of
\* the URL; as long as every image and link rendered was external,
\* attachments is empty and resolve_link was never called.
C2_ExternalLeavesAttachments ==
    /\ [](ExternalOnly => attachments = <<>> /\ resolved = <<>>)
    /\ [][\A src \in Srcs :
            (is_external(src) /\ (image(src) \/ link_hook(src)))
                => (attachments' = attachments /\ resolved' = resolved)]_vars

C2_Witness ==
    /\ pc = "rendering" /\ Len(out) = 2
    /\ out[1].hook = "image" /\ out[1].src = HttpHostImagesPng
    /\ out[2].hook = "link" /\ out[2].src = HostMd
    /\ attachments = <<>> /\ resolved = <<>>

\* A src under the assets directory: "images/" after any leading "/"s.
UnderAssets(src) == StartsWith(LStrip(src, {"/"}), IMAGES \o SEP)

\* C3: the entry the image hook records for a src that is not external is,
\* for a src under the assets directory, src without its leading "images"
\* prefix and without leading "/"s (so it never starts with "/"), and for any
\* other src it is not truncated.
C3_ImageEntryStripped ==
    (pc = "rendering" /\ Len(out) = 1 /\ out[1].hook = "image"
        /\ ~is_external(out[1].src))
    => /\ Len(attachments) = 1
       /\ UnderAssets(out[1].src) =>
            /\ attachments[1] =
                 LStrip(From(LStrip(out[1].src, {"/"}), Len(IMAGES)), {"/"})
            /\ ~StartsWith(attachments[1], SEP)
       /\ ~UnderAssets(out[1].src) =>
            attachments[1] = LStrip(out[1].src, {"/"})

\* C4: has_toc is false until a header hook has run and true from the first
\* header hook on, whatever its level and whatever hooks follow; layout hands
\* this value to render, so the page holds the table-of-contents macro
\* exactly when a heading was rendered.
C4_TocIffHeading ==
    /\ pc \in {"new", "failed"} => ~has_toc
    /\ pc \in {"rendering", "done"} => (has_toc <=> HeaderSeen)
    /\ pc = "done" => (page.toc = "toc macro" <=> HeaderSeen)
    /\ pc = "done" => (page.toc = "empty cell" <=> ~HeaderSeen)

C4_Witness ==
    /\ pc = "done" /\ Len(out) = 2
    /\ out[1].hook = "header" /\ out[1].level = 6
    /\ out[2].hook = "image"
    /\ page.toc = "toc macro"

\* C7: __init__ with a page_layout that is falsy or no AbstractConfluencePage
\* fails before any hook runs: no hook output, no attachments, no layout; a
\* renderer exists only for a truthy page instance, and it starts with
\* has_toc false and attachments empty.
C7_InvalidLayoutFails ==
    /\ (pc # "new" /\ ~(page_layout.truthy /\ page_layout.isPage))
        => (pc = "failed" /\ out = <<>> /\ attachments = <<>>
            /\ resolved = <<>> /\ ~has_toc /\ page = NoPage)
    /\ (pc # "new" /\ page_layout.truthy /\ page_layout.isPage)
        => pc \in {"rendering", "done"}
    /\ (pc = "rendering" /\ out = <<>>) => (~has_toc /\ attachments = <<>>)

C7_Witness ==
    /\ pc = "failed" /\ page_layout.truthy /\ ~page_layout.isPage
    /\ out = <<>>

\* a is a prefix of b.
IsPrefix(a, b) == Len(a) <= Len(b) /\ SubSeq(b, 1, Len(a)) = a

\* a is a suffix of b.
IsSuffix(a, b) == Len(a) <= Len(b) /\ From(b, Len(b) - Len(a)) = a

\* The fragment of an image that is not external, or of a link that is not
\* external and is classified ATTACHMENT.
IsAttaching(f) ==
    \/ f.hook = "image" /\ ~is_external(f.src)
    \/ f.hook = "link" /\ ~is_external(f.src)
         /\ resolve_link(f.src) = "ATTACHMENT"

\* C11: attachments is append-only.  It holds one entry for every image that
\* is not external and every link classified ATTACHMENT, in document order
\* and with repetitions kept; the entry of a link is its src as given, the
\* entry of an image is the tail of its src.  Every step leaves the earlier
\* value a prefix of the later one and appends at most one entry, and a hook
\* other than such an image or link leaves attachments as it was.
C11_AppendOnly ==
    /\ [](LET attaching == SelectSeq(out, IsAttaching)
          IN /\ Len(attachments) = Len(attaching)
             /\ \A k \in 1..Len(attaching) :
                  /\ attaching[k].hook = "link"
                        => attachments[k] = attaching[k].src
                  /\ attaching[k].hook = "image"
                        => IsSuffix(attachments[k], attaching[k].src))
    /\ [][/\ IsPrefix(attachments, attachments')
          /\ Len(attachments') <= Len(attachments) + 1
          /\ (Len(out') = Len(out) + 1 /\ ~IsAttaching(out'[Len(out')]))
                => attachments' = attachments
          /\ (Len(out') = Len(out) + 1 /\ IsAttaching(out'[Len(out')]))
                => Len(attachments') = Len(attachments) + 1
          /\ Len(out') = Len(out) => attachments' = attachments]_vars

C11_Witness ==
    /\ pc = "done" /\ Len(out) = 2
    /\ out[1].hook = "link" /\ out[1].src = Join(<<IMAGES, SEP, NAME, PNG>>)
    /\ out[2].hook = "link" /\ out[2].src = out[1].src
    /\ attachments = <<out[1].src, out[1].src>>

----------------------------------------------------------------------------
(* resolve_link over generated links *)

MaxParts == 5

LinkParts == {HASH, SEP, IMAGES, DOTDOT, NAME, MD, TXT}

\* Every link made of at most MaxParts parts.
Links ==
    {Join(ps) : ps \in UNION {[1..n -> LinkParts] : n \in 0..MaxParts}}

InitLink ==
    /\ link \in Links /\ link_type = "unset"
    /\ RendererIdle /\ MacroIdle /\ ParseIdle /\ ScanIdle

\* convert.py 250-273: one call of resolve_link.
Resolve ==
    /\ link_type = "unset"
    /\ link_type' = resolve_link(link)
    /\ UNCHANGED <<link, rendererVars, macroVars, parseVars, scanVars>>

NextLink == Resolve

SpecLink == InitLink /\ [][NextLink]_vars

\* The classification by the rules as stated: "#" first, then the base name
\* of the containing directory, then the extension.
ClaimedLinkType(l) ==
    IF StartsWith(l, HASH) THEN "HEADING"
    ELSE IF basename(dirname(l)) = IMAGES THEN "ATTACHMENT"
    ELSE IF splitext_ext(l) = MD THEN "MD_PAGE_REFERENCE"
    ELSE "UNKNOWN"

\* C1: resolve_link classifies a link by the first rule that matches: a
\* leading "#" is HEADING; a containing directory whose base name is "images"
\* is ATTACHMENT (also for "../images/a" and "a/images/a"); the extension
\* ".md" is MD_PAGE_REFERENCE; anything else is UNKNOWN.
C1_FirstMatchingRule ==
    link_type # "unset" => link_type = ClaimedLinkType(link)

----------------------------------------------------------------------------
(* convert_info_macros, convert.py 53-89 *)

(* An HTML string is the sequence of its tags and text characters: "<p>" and
   "</p>" are one symbol each, as is every other tag the macros are made of;
   "~", ":", "%", "?", "!" and "x" are characters of the text.  Every pattern
   of convert_info_macros is made of whole symbols. *)

MaxHtmlLen == 3
MaxBodyLen == 2

P == "<p>"
EP == "</p>"
Kinds == {":", "%", "?", "!"}
HtmlSymbols == {"~", ":", "%", "?", "!", P, EP, "x"}

\* str.replace(old, new): every occurrence of old, found from the left and
\* not overlapping one already replaced, becomes new.
RECURSIVE Replace(_, _, _)
Replace(s, old, new) ==
    IF Len(s) < Len(old) THEN s
    ELSE IF SubSeq(s, 1, Len(old)) = old
         THEN new \o Replace(From(s, Len(old)), old, new)
         ELSE <<Head(s)>> \o Replace(Tail(s), old, new)

\* A naming that takes the note delimiter for a tip.
MacroNameNoteAsTip(k) ==
    CASE k = ":" -> "info" [] k = "%" -> "tip"
      [] k = "?" -> "tip" [] k = "!" -> "warning"

\* convert.py 63-66 and 72-75: the macro each delimiter character selects.
MacroName(k) ==
    CASE k = ":" -> "info" [] k = "%" -> "tip"
      [] k = "?" -> "note" [] k = "!" -> "warning"

\* convert.py 63-66: info_tag, and info_tag.replace('info', name).
OpenTag(k) ==
    <<P, "<ac:structured-macro ac:name=\"" \o MacroName(k) \o "\">",
      "<ac:rich-text-body>", P>>

\* convert.py 67
close_tag ==
    <<EP, "</ac:rich-text-body>", "</ac:structured-macro>", EP>>

\* convert.py 72-75: one line of the block pass.
BlockPass(h, k) ==
    Replace(Replace(h, <<P, "~", k, EP>>, OpenTag(k)),
            <<P, k, "~", EP>>, close_tag)

\* convert.py 78-81: one line of the inline pass.
InlinePass(h, k) ==
    Replace(Replace(h, <<P, "~", k>>, OpenTag(k)), <<k, "~", EP>>, close_tag)

\* A bare pass that replaces the opening delimiters only.
BarePassOpeningOnly(h, k) == Replace(h, <<"~", k>>, OpenTag(k))

\* convert.py 84-87: one line of the bare pass.
BarePass(h, k) ==
    Replace(Replace(h, <<"~", k>>, OpenTag(k)), <<k, "~">>, close_tag)

RECURSIVE BlockAll(_, _)
\* convert.py 72-75: the block lines, in the order given.
BlockAll(h, order) ==
    IF order = <<>> THEN h ELSE BlockAll(BlockPass(h, Head(order)), Tail(order))

RECURSIVE InlineAll(_, _)
\* convert.py 78-81: the inline lines, in the order given.
InlineAll(h, order) ==
    IF order = <<>> THEN h ELSE InlineAll(InlinePass(h, Head(order)), Tail(order))

RECURSIVE BareAll(_, _)
\* convert.py 84-87: the bare lines, in the order given.
BareAll(h, order) ==
    IF order = <<>> THEN h ELSE BareAll(BarePass(h, Head(order)), Tail(order))

\* The three passes, each over the kinds in an order of its own.
ConvertInOrder(h, blockOrder, inlineOrder, bareOrder) ==
    BareAll(InlineAll(BlockAll(h, blockOrder), inlineOrder), bareOrder)

\* convert.py 72-87: info, tip, note, warning in each pass.
KindOrder == <<":", "%", "?", "!">>

\* A conversion without the inline pass.
convert_info_macros_no_inline(h) == BareAll(BlockAll(h, KindOrder), KindOrder)

\* convert.py 53-89
convert_info_macros(h) == ConvertInOrder(h, KindOrder, KindOrder, KindOrder)

\* The eight raw delimiters.
Delimiters == {<<"~", k>> : k \in Kinds} \cup {<<k, "~">> : k \in Kinds}

HasDelimiter(h) == \E i \in 1..(Len(h) - 1) : <<h[i], h[i + 1]>> \in Delimiters

\* '<p>~X</p>' + body + '<p>X~</p>'
BlockForm(k, body) == <<P, "~", k, EP>> \o body \o <<P, k, "~", EP>>

SymbolSeqs(n) == UNION {[1..m -> HtmlSymbols] : m \in 0..n}

\* The HTML handed to convert_info_macros: every string of at most
\* MaxHtmlLen symbols, and every block form around a body of at most
\* MaxBodyLen symbols that holds no delimiter.
HtmlInputs ==
    SymbolSeqs(MaxHtmlLen)
    \cup {BlockForm(k, b) : k \in Kinds,
                            b \in {x \in SymbolSeqs(MaxBodyLen) : ~HasDelimiter(x)}}

InitMacro ==
    /\ html \in HtmlInputs /\ stage = "raw" /\ pass1 = <<>> /\ pass2 = <<>>
    /\ RendererIdle /\ LinkIdle /\ ParseIdle /\ ScanIdle

\* convert.py 100: content_html = convert_info_macros(content_html)
Convert ==
    /\ stage = "raw"
    /\ pass1' = convert_info_macros(html)
    /\ stage' = "once"
    /\ UNCHANGED <<html, pass2, rendererVars, linkVars, parseVars, scanVars>>

\* convert_info_macros run again on its own output.
ConvertAgain ==
    /\ stage = "once"
    /\ pass2' = convert_info_macros(pass1)
    /\ stage' = "twice"
    /\ UNCHANGED <<html, pass1, rendererVars, linkVars, parseVars, scanVars>>

NextMacro == Convert \/ ConvertAgain

SpecMacro == InitMacro /\ [][NextMacro]_vars

----------------------------------------------------------------------------
(* Properties of convert_info_macros, checked under SpecMacro *)

\* C5: convert_info_macros is idempotent: a second pass over the output of
\* the first changes nothing, and the output of one pass holds none of the
\* eight raw delimiters.
C5_Idempotent ==
    /\ stage \in {"once", "twice"} => ~HasDelimiter(pass1)
    /\ stage = "twice" => pass2 = pass1

C5_Witness ==
    /\ stage = "twice"
    /\ html = <<"~", ":", "~">>
    /\ pass1 = OpenTag(":") \o <<"~">> /\ pass2 = pass1

\* html is '<p>~X</p>' + body + '<p>X~</p>' with no delimiter in body.
IsBlockForm(h) ==
    /\ Len(h) >= 8
    /\ h[3] \in Kinds
    /\ SubSeq(h, 1, 4) = <<P, "~", h[3], EP>>
    /\ SubSeq(h, Len(h) - 3, Len(h)) = <<P, h[3], "~", EP>>
    /\ ~HasDelimiter(SubSeq(h, 5, Len(h) - 4))

\* C6: for html of the form '<p>~X</p>' + body + '<p>X~</p>', body without
\* delimiters, the result is the opening tag of the macro X selects (":"
\* info, "%" tip, "?" note, "!" warning), then body unchanged, then the
\* shared closing tag, and nothing else.
C6_BlockFormWrapsBody ==
    (stage \in {"once", "twice"} /\ IsBlockForm(html))
    => /\ pass1 = OpenTag(html[3]) \o SubSeq(html, 5, Len(html) - 4) \o close_tag
       /\ pass1[2] =
            CASE html[3] = ":" -> "<ac:structured-macro ac:name=\"info\">"
              [] html[3] = "%" -> "<ac:structured-macro ac:name=\"tip\">"
              [] html[3] = "?" -> "<ac:structured-macro ac:name=\"note\">"
              [] html[3] = "!" -> "<ac:structured-macro ac:name=\"warning\">"

C6_Witness ==
    /\ stage = "once"
    /\ html = BlockForm("?", <<"~", "x">>)
    /\ pass1 = <<P, "<ac:structured-macro ac:name=\"note\">",
                 "<ac:rich-text-body>", P, "~", "x",
                 EP, "</ac:rich-text-body>", "</ac:structured-macro>", EP>>

\* The orders in which the four kinds can be processed.
Orders ==
    {o \in [1..4 -> Kinds] : \A i, j \in 1..4 : o[i] = o[j] => i = j}

\* The kinds whose delimiters occur in h.
DelimiterKinds(h) ==
    {k \in Kinds : \E i \in 1..(Len(h) - 1) :
        <<h[i], h[i + 1]>> \in {<<"~", k>>, <<k, "~">>}}

----------------------------------------------------------------------------
(* parse, convert.py 27-51 *)

(* A document is the sequence of its lines, each without its line end; the
   texts parse builds by appending lines are kept as sequences of lines.  A
   line read from a file is never the empty string (it holds at least its
   line end), so such a text is non-empty exactly when it holds a line. *)

MaxLines == 4

\* convert.py 11
YAML_BOUNDARY == <<"-", "-", "-">>
Whitespace == {" "}

DocLines ==
    {YAML_BOUNDARY,                          \* ---
     <<" ", "-", "-", "-", " ">>,            \*  ---  (a boundary once stripped)
     <<"-", "-", "-", "-">>,                 \* ----
     <<"t", ":", " ", "x">>,                 \* t: x
     <<"x">>,                                \* x
     <<" ", "x">>,                           \*  x
     <<>>}                                   \* an empty line

\* str.strip()
Strip(s) == LStrip(RStrip(s, Whitespace), Whitespace)

RECURSIVE DropBlankHead(_)
DropBlankHead(ls) ==
    IF ls # <<>> /\ Strip(Head(ls)) = <<>> THEN DropBlankHead(Tail(ls)) ELSE ls

RECURSIVE DropBlankTail(_)
DropBlankTail(ls) ==
    IF ls # <<>> /\ Strip(ls[Len(ls)]) = <<>>
    THEN DropBlankTail(SubSeq(ls, 1, Len(ls) - 1)) ELSE ls

\* convert.py 50: markdown.strip() on a text kept as lines: the blank lines
\* at both ends go, then the white space before the first and after the last
\* character.
StripText(ls) ==
    LET kept == DropBlankTail(DropBlankHead(ls))
    IN [i \in 1..Len(kept) |->
            LET a == IF i = 1 THEN LStrip(kept[i], Whitespace) ELSE kept[i]
            IN IF i = Len(kept) THEN RStrip(a, Whitespace) ELSE a]

Docs == UNION {[1..n -> DocLines] : n \in 0..MaxLines}

\* convert.py 33-37
InitParse ==
    /\ doc \in Docs /\ pos = 0 /\ parsed = "reading"
    /\ raw_yaml = <<>> /\ markdown = <<>> /\ in_yaml = TRUE
    /\ RendererIdle /\ LinkIdle /\ MacroIdle /\ ScanIdle

\* convert.py 40-41: the line ends the metadata block.
ends_yaml(line, inYaml, rawYaml) ==
    Strip(line) = YAML_BOUNDARY /\ inYaml /\ rawYaml # <<>>

\* convert.py 38-47: one turn of the loop over the lines.
ReadLine ==
    /\ parsed = "reading" /\ pos < Len(doc)
    /\ pos' = pos + 1
    /\ LET line == doc[pos + 1]
       IN IF ends_yaml(line, in_yaml, raw_yaml)
          THEN /\ in_yaml' = FALSE
               /\ UNCHANGED <<raw_yaml, markdown>>
          ELSE IF in_yaml
               THEN /\ raw_yaml' = Append(raw_yaml, line)
                    /\ UNCHANGED <<in_yaml, markdown>>
               ELSE /\ markdown' = Append(markdown, line)
                    /\ UNCHANGED <<in_yaml, raw_yaml>>
    /\ UNCHANGED <<doc, parsed, rendererVars, linkVars, macroVars, scanVars>>

\* convert.py 49-51.  yaml.load is given raw_yaml as it stands.
FinishParse ==
    /\ parsed = "reading" /\ pos = Len(doc)
    /\ markdown' = StripText(markdown)
    /\ parsed' = "done"
    /\ UNCHANGED <<doc, pos, in_yaml, raw_yaml,
                   rendererVars, linkVars, macroVars, scanVars>>

NextParse == ReadLine \/ FinishParse

SpecParse == InitParse /\ [][NextParse]_vars

\* The places of the boundary lines of d.
Boundaries(d) == {i \in 1..Len(d) : Strip(d[i]) = YAML_BOUNDARY}

Least(S) == CHOOSE i \in S : \A j \in S : i <= j

\* C9: parse starts outside metadata mode, the first boundary line enters it
\* and the second leaves it: for a document with no boundary line every line
\* is body text and the metadata text is empty; for a document that opens
\* with a boundary line and holds one more, the metadata text is the lines
\* strictly between the two and the body is the lines after the second.
C9_TwoModeScan ==
    parsed = "done" =>
        /\ Boundaries(doc) = {} =>
             (raw_yaml = <<>> /\ markdown = StripText(doc))
        /\ (Cardinality(Boundaries(doc)) = 2 /\ 1 \in Boundaries(doc)) =>
             LET second == Least(Boundaries(doc) \ {1})
             IN /\ raw_yaml = SubSeq(doc, 2, second - 1)
                /\ markdown = StripText(SubSeq(doc, second + 1, Len(doc)))

----------------------------------------------------------------------------
(* MarkdownPages.__scan_repository__, docs.py 74-102 *)

(* The walk os.walk yields is kept flat: a directory, the files found
   directly in it, the next directory, its files, and so on.  The first
   directory is the docs root.  A file or directory is known by its place in
   the walk, which stands for its path. *)

MaxWalk == 4

\* docs.py 9
ASSETS_DIR == "images"
\* docs.py 8
DOCS_ROOT == "content"

DirEntry(name) == [kind |-> "dir", name |-> name, ext |-> "", meta |-> ""]
FileEntry(ext, meta) == [kind |-> "file", name |-> "", ext |-> ext, meta |-> meta]

\* Sub-directories, and files: Markdown documents whose metadata has a title,
\* has no title key, or is empty (parse returns None), and other files.
WalkEntries ==
    {DirEntry("guide"), DirEntry(ASSETS_DIR),
     FileEntry(".md", "title"), FileEntry(".md", "no title"),
     FileEntry(".md", "none"), FileEntry(".txt", "")}

Walks ==
    {<<DirEntry(DOCS_ROOT)>> \o w :
        w \in UNION {[1..n -> WalkEntries] : n \in 0..MaxWalk}}

\* The place of the directory the entry at place i lies in.
DirOf(w, i) ==
    LET ds == {j \in 1..i : w[j].kind = "dir"}
    IN CHOOSE j \in ds : \A k \in ds : k <= j

\* The place of the last entry of the directory that starts at place d.
EndOfDir(w, d) ==
    LET nxt == {j \in (d + 1)..Len(w) : w[j].kind = "dir"}
    IN IF nxt = {} THEN Len(w) ELSE (CHOOSE j \in nxt : \A k \in nxt : j <= k) - 1

\* A MarkdownFile that takes a missing title for an empty one.
MarkdownFile_raises_never(f) == FALSE

\* docs.py 27-28: front_matter['title'] raises KeyError when the metadata
\* has no title, TypeError when parse returned no metadata.
MarkdownFile_raises(f) == f.meta # "title"

InitScan ==
    /\ walk \in Walks /\ di = 0 /\ fi = 0 /\ scan_pc = "walk"
    /\ directory = {} /\ md_docs_tree = {} /\ errors = {}
    /\ RendererIdle /\ LinkIdle /\ MacroIdle /\ ParseIdle

ScanFrame == UNCHANGED <<rendererVars, linkVars, macroVars, parseVars>>

\* docs.py 77-83: the next directory of the walk; an assets directory is
\* skipped with its files.
EnterDir ==
    /\ scan_pc = "walk" /\ fi < Len(walk)
    /\ di' = fi + 1
    /\ IF walk[fi + 1].name = ASSETS_DIR
       THEN /\ fi' = EndOfDir(walk, fi + 1)
            /\ UNCHANGED <<scan_pc, directory>>
       ELSE /\ fi' = fi + 1
            /\ scan_pc' = "files"
            /\ directory' = {}
    /\ UNCHANGED <<walk, md_docs_tree, errors>>
    /\ ScanFrame

\* docs.py 84-98: one file of the directory.
ScanFile ==
    /\ scan_pc = "files" /\ fi < EndOfDir(walk, di)
    /\ fi' = fi + 1
    /\ LET file == walk[fi + 1]
       IN IF file.ext # ".md"
          THEN UNCHANGED <<directory, errors>>
          ELSE IF MarkdownFile_raises(file)
               THEN /\ errors' = errors \cup {fi + 1}       \* log.error
                    /\ UNCHANGED directory
               ELSE /\ directory' = directory \cup {fi + 1} \* add_file
                    /\ UNCHANGED errors
    /\ UNCHANGED <<walk, di, scan_pc, md_docs_tree>>
    /\ ScanFrame

\* docs.py 100-102: the directory is stored when it holds a document.
StoreDir ==
    /\ scan_pc = "files" /\ fi = EndOfDir(walk, di)
    /\ md_docs_tree' =
         IF directory # {}
         THEN md_docs_tree \cup {[dir |-> di, files |-> directory]}
         ELSE md_docs_tree
    /\ scan_pc' = "walk"
    /\ UNCHANGED <<walk, di, fi, directory, errors>>
    /\ ScanFrame

\* docs.py 77: the walk is exhausted.
FinishScan ==
    /\ scan_pc = "walk" /\ fi = Len(walk)
    /\ scan_pc' = "done"
    /\ UNCHANGED <<walk, di, fi, directory, md_docs_tree, errors>>
    /\ ScanFrame

NextScan == EnterDir \/ ScanFile \/ StoreDir \/ FinishScan

SpecScan == InitScan /\ [][NextScan]_vars

\* The Markdown documents of the walk outside assets directories.
Documents ==
    {i \in 1..Len(walk) :
        /\ walk[i].kind = "file" /\ walk[i].ext = ".md"
        /\ walk[DirOf(walk, i)].name # ASSETS_DIR}

Indexed == UNION {d.files : d \in md_docs_tree}

\* C8: a document without a title fails alone: it is logged and left out of
\* its directory's index, and the scan goes on, so every document the scan
\* has passed is either indexed (or held by the directory being scanned),
\* when it has a title, or logged, when it has none; after the scan the index
\* holds exactly the documents that have a title, each under its own
\* directory.
C8_UntitledSkippedOnly ==
    /\ \A i \in Documents :
         /\ i \in errors <=> (i <= fi /\ walk[i].meta # "title")
         /\ (i \in Indexed \/ (scan_pc = "files" /\ i \in directory))
                <=> (i <= fi /\ walk[i].meta = "title")
    /\ \A d \in md_docs_tree : \A i \in d.files : DirOf(walk, i) = d.dir
    /\ scan_pc = "done" =>
         /\ fi = Len(walk)
         /\ Indexed = {i \in Documents : walk[i].meta = "title"}

C8_Witness ==
    /\ scan_pc = "done"
    /\ walk = <<DirEntry(DOCS_ROOT), FileEntry(".md", "no title"),
                FileEntry(".md", "title"), DirEntry("guide"),
                FileEntry(".md", "title")>>
    /\ md_docs_tree = {[dir |-> 1, files |-> {3}], [dir |-> 4, files |-> {5}]}
    /\ errors = {2}

====
